---- MODULE Spec2Model ----
(***************************************************************************)
(* Turn-taking model of the voice assistant.                               *)
(*                                                                         *)
(*   SpecLocal  : the standalone loop of src/app.py (run_voice_assistant): *)
(*                the capture callback thread, the main loop and           *)
(*                speak_text with the listening_active gate.               *)
(*                                                                         *)
(*   SpecServer : the WebSocket server of src/VOICE_ASSISTANT_OPENAI.py    *)
(*                with up to two connections.                              *)
(*   SpecBoth   : a run of either program.                                 *)
(*   SpecClient : the browser client (class VoiceAssistant) with the       *)
(*                server on its connection.                                *)
(*   SpecVad    : the client's checkAudio fed a loudness sequence, one     *)
(*                frame per tick.                                          *)
(*                                                                         *)
(* Every specification owns a group of variables and leaves the other      *)
(* groups as they are.                                                     *)
(***************************************************************************)
EXTENDS Integers, Sequences, FiniteSets, TLC

(***************************************************************************)
(* Bounds of the model (not program constants).                            *)
(***************************************************************************)
\* longest q_audio the capture callback is allowed to build up
MaxQueue == 2
\* audio_data messages sent over all connections of one run
MaxUtter == 2
\* MediaRecorders the browser client creates in one run
MaxRec == 2
\* getUserMedia requests that may be pending at once
MaxPending == 1
MaxGrants == 2
\* clock ticks that silenceDelay spans in the browser client's runs
SilenceTicks == 2
\* frames in the loudness sequences of the VAD runs (besides the scenario's)
VadLen == 5
\* ticks of the server's clock over which stage timings are followed
MaxClock == 1

(***************************************************************************)
(* State of the local loop (src/app.py, run_voice_assistant).              *)
(***************************************************************************)
VARIABLES
    listening_active,   \* app.py:138  flag read by audio_callback, written by speak_text
    audio_lock,         \* app.py:139  TRUE while speak_text holds the lock
    q_audio,            \* app.py:134  queue.Queue() of captured frames
    cb_pc,              \* position of the capture callback thread
    cb_frame,           \* the frame (indata) the running callback was invoked with
    main_pc,            \* position of the main thread
    ret_pc,             \* where speak_text returns to
    stream_open,        \* inside "with sd.RawInputStream(...)" (app.py:219-226)
    data,               \* app.py:230  the frame the main loop took from the queue
    text,               \* app.py:233  final recognition text
    reply,              \* app.py:237  the answer handed to speak_text
    speaker             \* "silent" / "playing": pygame.mixer.music busy (app.py:113-117)

localVars == <<listening_active, audio_lock, q_audio, cb_pc, cb_frame,
               main_pc, ret_pc, stream_open, data, text, reply, speaker>>

(***************************************************************************)
(* State of the server (src/VOICE_ASSISTANT_OPENAI.py): the process-wide   *)
(* globals and, per websocket connection, the coroutine websocket_endpoint *)
(* with the process_audio call it is in.                                   *)
(***************************************************************************)
VARIABLES
    openai_api_key,     \* :25   TRUE when OPENAI_API_KEY is set
    is_processing,      \* :47   conversation_state["is_processing"]
    current_websocket,  \* :49   conversation_state["current_websocket"], 0 for None
    srv_pc,             \* per connection: position of websocket_endpoint / process_audio
    cur,                \* per connection: the audio_data message being processed
    transcription,      \* per connection: :214 local of process_audio
    response,           \* per connection: :228 local of process_audio
    audio_base64,       \* per connection: :234 local of process_audio
    result,             \* per connection: what process_audio returned (:285)
    calls,              \* per connection: collaborator calls made by the running process_audio
    c2s,                \* per connection: messages the client sent, not yet received
    s2c,                \* per connection: messages the server sent, not yet delivered
    sent,               \* per connection: number of audio_data messages sent so far
    served,             \* per connection: number of audio_data messages answered so far
    clock,              \* time.time() of the server, in ticks
    pm_start_time,      \* :61  performance_monitor.start_time, -1 for None
    pm_metrics,         \* :62  performance_monitor.metrics
    total_start_time,   \* per connection: :210 local of process_audio, -1 outside it
    processing_time,    \* per connection: "processing_time" of the result (:222, :239, :255)
    metrics             \* per connection: "metrics" of the result (:240, :248)

timeVars == <<clock, pm_start_time, pm_metrics, total_start_time, processing_time, metrics>>

srvPriv == <<openai_api_key, is_processing, current_websocket, srv_pc, cur,
             transcription, response, audio_base64, result, calls, served, timeVars>>

serverVars == <<srvPriv, c2s, s2c, sent>>

(***************************************************************************)
(* State of the browser client (class VoiceAssistant, :654-1111).          *)
(* Time is counted in ticks; silenceDelay is held in ticks.                *)
(***************************************************************************)
VARIABLES
    autoMode,           \* :661
    cancelledUpTo,      \* :780-794  log of toggleAutoMode: the last upload that was in flight when auto mode was switched off
    isRecording,        \* :659
    isProcessing,       \* :660
    silenceTimeout,     \* :666  -1 for null, else ticks left until the timer is due
    silenceDelay,       \* :667
    microphone,         \* :662-664  TRUE when audioContext, analyser and microphone are set
    mediaRecorder,      \* :657  id of the recorder the client references, 0 for null
    audioChunks,        \* :658
    ui,                 \* :1073-1089  the state shown by updateUI
    playing,            \* :1064-1065  number of Audio elements playing the assistant's voice
    ws,                 \* :656  the connection in use, 0 when not open
    pendingAuto,        \* :798  getUserMedia requests of startAutoListening not yet settled
    pendingManual,      \* :911  getUserMedia requests of startRecording not yet settled
    monitors,           \* :871  checkAudio loops that have a frame callback scheduled
    activeRecs,         \* ids of the MediaRecorders that are recording (:939 .. :959)
    recEvents,          \* dataavailable / stop events of stopped recorders, not yet dispatched
    blobs,              \* :972-973  payloads of processRecording waiting for arrayBuffer()
    nRec,               \* number of MediaRecorders created so far
    level               \* the loudness the analyser would report now (:840-843)

clientVars == <<autoMode, cancelledUpTo, isRecording, isProcessing, silenceTimeout, silenceDelay,
                microphone, mediaRecorder, audioChunks, ui, playing, ws,
                pendingAuto, pendingManual, monitors, activeRecs, recEvents,
                blobs, nRec, level>>

(***************************************************************************)
(* State of the VAD scenario runs: a loudness sequence fed one frame per   *)
(* tick to checkAudio, and the events it produced.                         *)
(***************************************************************************)
VARIABLES
    levels,             \* the loudness sequence, indexed from 0 in the claims
    now,                \* index of the current frame
    frameDone,          \* the frame of index now has been handled
    events              \* <<kind, index>> of every SpeechStart / SpeechStop so far

vadVars == <<levels, now, frameDone, events>>

remoteVars == <<serverVars, clientVars, vadVars>>

nonServerVars == <<localVars, clientVars, vadVars>>

vars == <<localVars, remoteVars>>

\* :655-669  the browser client as its constructor leaves it, before init()
ClientConstructed ==
    /\ autoMode = FALSE
    /\ cancelledUpTo = 0
    /\ isRecording = FALSE
    /\ isProcessing = FALSE
    /\ silenceTimeout = -1
    /\ microphone = FALSE
    /\ mediaRecorder = 0
    /\ audioChunks = <<>>
    /\ ui = "idle"
    /\ playing = 0
    /\ pendingAuto = 0
    /\ pendingManual = 0
    /\ monitors = 0
    /\ activeRecs = {}
    /\ recEvents = <<>>
    /\ blobs = <<>>
    /\ nRec = 0
    /\ level = 5

\* no browser client takes part
ClientOff == ClientConstructed /\ ws = 0 /\ silenceDelay = SilenceTicks

\* no VAD scenario is run
VadOff == levels = <<>> /\ now = 0 /\ frameDone = FALSE /\ events = <<>>

(***************************************************************************)
(* Frames.  A frame carries its loudness and, as a record of when it       *)
(* arrived, whether the playback gate was held (listening_active = FALSE)  *)
(* and whether the main thread was answering at the moment the capture     *)
(* callback was invoked with it.                                           *)
(***************************************************************************)
Louds == {5, 60}

NoFrame == [loud |-> -1, gated |-> FALSE, busy |-> FALSE]

Frames == [loud : Louds, gated : BOOLEAN, busy : BOOLEAN]

\* the texts the loop may hold after line 233
LocalTexts == {"", "track my order", "oh i see"}

\* what vosk may report as the text of a final result (app.py:232)
VoskTexts == {"", " ", "track my order", " oh i see "}

\* str.startswith
StartsWith(s, p) == Len(s) >= Len(p) /\ SubSeq(s, 1, Len(p)) = p

\* str.strip for blanks
RECURSIVE Strip(_)
Strip(s) ==
    IF s = "" THEN s
    ELSE IF SubSeq(s, 1, 1) = " " THEN Strip(SubSeq(s, 2, Len(s)))
    ELSE IF SubSeq(s, Len(s), Len(s)) = " " THEN Strip(SubSeq(s, 1, Len(s) - 1))
    ELSE s

\* "sub in s"
Contains(s, sub) ==
    \E i \in 1..(Len(s) - Len(sub) + 1) : SubSeq(s, i, i + Len(sub) - 1) = sub

UpperCase == "ABCDEFGHIJKLMNOPQRSTUVWXYZ"
LowerCase == "abcdefghijklmnopqrstuvwxyz"

\* str.lower
RECURSIVE Lower(_)
Lower(s) ==
    IF s = "" THEN s
    ELSE LET ch == SubSeq(s, 1, 1)
             up == {i \in 1..Len(UpperCase) : SubSeq(UpperCase, i, i) = ch}
         IN  (IF up = {} THEN ch
              ELSE LET i == CHOOSE j \in up : TRUE IN SubSeq(LowerCase, i, i))
             \o Lower(SubSeq(s, 2, Len(s)))

\* the text of a final result taken as it comes
FinalTextUnstripped(raw) == raw

\* app.py:233  text = result_json.get('text', '').strip()
FinalText(raw) == Strip(raw)

\* app.py:188, :195  the fixed replies, and what the collection may hold
SorryRepeat == "Sorry, I didn't catch that. Could you please repeat your question?"
TroubleUnderstanding == "I'm having trouble understanding. Could you please repeat your question more clearly?"
DbAnswers == {"Open the tracking page and enter your AWB number."}

\* app.py:191
garbled_indicators == {"murder", "oh i see", "that is", "of and that"}

\* app.py:186-207  the replies query_chroma_db(question_text) may lead to
query_chroma_db(question_text) ==
    IF Strip(question_text) = "" THEN {SorryRepeat}
    ELSE IF \E ind \in garbled_indicators : Contains(Lower(question_text), ind)
      THEN {TroubleUnderstanding}
    ELSE DbAnswers

(***************************************************************************)
(* audio_callback (app.py:141-145), one step per line that can be          *)
(* separated from the next by the main thread.                             *)
(***************************************************************************)
\* positions of the main thread inside speak_text (app.py:147-181)
SpeakPcs == {"sp_acq1", "sp_set", "sp_rel1", "sp_tts", "sp_conv", "sp_play",
             "sp_wait", "sp_sleep", "sp_acq2", "sp_unset", "sp_rel2"}

\* app.py:236-239  the main thread is answering: in query_chroma_db or in
\* speak_text_sync
Answering == main_pc \in {"query"} \cup SpeakPcs

\* the stream invokes the callback with a new block (app.py:141); line 142-143
\* (status check / print) run before the flag is read
CbEnter(l) ==
    /\ stream_open
    /\ cb_pc = "idle"
    /\ Len(q_audio) < MaxQueue
    /\ cb_pc' = "entered"
    /\ cb_frame' = [loud |-> l, gated |-> ~listening_active, busy |-> Answering]
    /\ UNCHANGED <<listening_active, audio_lock, q_audio, main_pc, ret_pc,
                   stream_open, data, text, reply, speaker>>
    /\ UNCHANGED remoteVars

\* app.py:144  "if listening_active:" read without the lock
CbCheckBody ==
    /\ cb_pc = "entered"
    /\ IF listening_active
         THEN /\ cb_pc' = "put"
              /\ cb_frame' = cb_frame
         ELSE /\ cb_pc' = "idle"
              /\ cb_frame' = NoFrame

CbCheck ==
    /\ CbCheckBody
    /\ UNCHANGED <<listening_active, audio_lock, q_audio, main_pc, ret_pc,
                   stream_open, data, text, reply, speaker>>
    /\ UNCHANGED remoteVars

\* app.py:145  q_audio.put(bytes(indata))
CbPut ==
    /\ cb_pc = "put"
    /\ q_audio' = Append(q_audio, cb_frame)
    /\ cb_pc' = "idle"
    /\ cb_frame' = NoFrame
    /\ UNCHANGED <<listening_active, audio_lock, main_pc, ret_pc,
                   stream_open, data, text, reply, speaker>>
    /\ UNCHANGED remoteVars

(***************************************************************************)
(* speak_text (app.py:147-181) and play_audio_from_memory (app.py:100-130) *)
(***************************************************************************)
MainStep(from, to) ==
    /\ main_pc = from
    /\ main_pc' = to

\* app.py:151  with audio_lock:  (acquire)
SpeakAcquire1 ==
    /\ MainStep("sp_acq1", "sp_set")
    /\ ~audio_lock
    /\ audio_lock' = TRUE
    /\ UNCHANGED <<listening_active, q_audio, cb_pc, cb_frame, ret_pc,
                   stream_open, data, text, reply, speaker>>
    /\ UNCHANGED remoteVars

\* app.py:152  listening_active = False
SpeakSetGate ==
    /\ MainStep("sp_set", "sp_rel1")
    /\ listening_active' = FALSE
    /\ UNCHANGED <<audio_lock, q_audio, cb_pc, cb_frame, ret_pc,
                   stream_open, data, text, reply, speaker>>
    /\ UNCHANGED remoteVars

\* app.py:151-152  leaving the with block (release)
SpeakRelease1 ==
    /\ MainStep("sp_rel1", "sp_tts")
    /\ audio_lock' = FALSE
    /\ UNCHANGED <<listening_active, q_audio, cb_pc, cb_frame, ret_pc,
                   stream_open, data, text, reply, speaker>>
    /\ UNCHANGED remoteVars

\* synthesis whose exception leaves speak_text at once, past the finally block
SpeakSynthesizeEscapes ==
    /\ main_pc = "sp_tts"
    /\ main_pc' \in {"sp_conv", ret_pc}
    /\ UNCHANGED <<listening_active, audio_lock, q_audio, cb_pc, cb_frame, ret_pc,
                   stream_open, data, text, reply, speaker>>
    /\ UNCHANGED remoteVars

\* app.py:156-162  stream the synthesized audio; an exception goes to line 175
SpeakSynthesize ==
    /\ main_pc = "sp_tts"
    /\ main_pc' \in {"sp_conv", "sp_sleep"}
    /\ UNCHANGED <<listening_active, audio_lock, q_audio, cb_pc, cb_frame, ret_pc,
                   stream_open, data, text, reply, speaker>>
    /\ UNCHANGED remoteVars

\* app.py:165-170  mp3 -> wav in memory; an exception goes to line 175
SpeakConvert ==
    /\ main_pc = "sp_conv"
    /\ main_pc' \in {"sp_play", "sp_sleep"}
    /\ UNCHANGED <<listening_active, audio_lock, q_audio, cb_pc, cb_frame, ret_pc,
                   stream_open, data, text, reply, speaker>>
    /\ UNCHANGED remoteVars

\* app.py:104-113  mixer init, load, play; an exception is caught at line 129
SpeakPlay ==
    /\ main_pc = "sp_play"
    /\ \/ main_pc' = "sp_wait" /\ speaker' = "playing"
       \/ main_pc' = "sp_sleep" /\ speaker' = speaker
    /\ UNCHANGED <<listening_active, audio_lock, q_audio, cb_pc, cb_frame, ret_pc,
                   stream_open, data, text, reply>>
    /\ UNCHANGED remoteVars

\* app.py:116-121  wait until the mixer is no longer busy, unload, quit
SpeakWait ==
    /\ MainStep("sp_wait", "sp_sleep")
    /\ speaker' = "silent"
    /\ UNCHANGED <<listening_active, audio_lock, q_audio, cb_pc, cb_frame, ret_pc,
                   stream_open, data, text, reply>>
    /\ UNCHANGED remoteVars

\* app.py:179  time.sleep(0.5), the trailing guard
SpeakSleep ==
    /\ MainStep("sp_sleep", "sp_acq2")
    /\ UNCHANGED <<listening_active, audio_lock, q_audio, cb_pc, cb_frame, ret_pc,
                   stream_open, data, text, reply, speaker>>
    /\ UNCHANGED remoteVars

\* app.py:180  with audio_lock:  (acquire)
SpeakAcquire2 ==
    /\ MainStep("sp_acq2", "sp_unset")
    /\ ~audio_lock
    /\ audio_lock' = TRUE
    /\ UNCHANGED <<listening_active, q_audio, cb_pc, cb_frame, ret_pc,
                   stream_open, data, text, reply, speaker>>
    /\ UNCHANGED remoteVars

\* app.py:181  listening_active = True
SpeakClearGate ==
    /\ MainStep("sp_unset", "sp_rel2")
    /\ listening_active' = TRUE
    /\ UNCHANGED <<audio_lock, q_audio, cb_pc, cb_frame, ret_pc,
                   stream_open, data, text, reply, speaker>>
    /\ UNCHANGED remoteVars

\* app.py:180-181  leaving the with block, speak_text returns
SpeakRelease2 ==
    /\ main_pc = "sp_rel2"
    /\ main_pc' = ret_pc
    /\ audio_lock' = FALSE
    /\ stream_open' = (stream_open /\ ret_pc # "stopped")
    /\ UNCHANGED <<listening_active, q_audio, cb_pc, cb_frame, ret_pc,
                   data, text, reply, speaker>>
    /\ UNCHANGED remoteVars

(***************************************************************************)
(* run_voice_assistant main thread (app.py:209-249)                        *)
(***************************************************************************)
\* app.py:216  speak_text_sync(GREETING_MESSAGE), before the stream is opened
Greet ==
    /\ MainStep("greet", "sp_acq1")
    /\ ret_pc' = "open"
    /\ UNCHANGED <<listening_active, audio_lock, q_audio, cb_pc, cb_frame,
                   stream_open, data, text, reply, speaker>>
    /\ UNCHANGED remoteVars

\* app.py:219-227  open the input stream, create the recognizer
OpenStream ==
    /\ MainStep("open", "get")
    /\ stream_open' = TRUE
    /\ UNCHANGED <<listening_active, audio_lock, q_audio, cb_pc, cb_frame, ret_pc,
                   data, text, reply, speaker>>
    /\ UNCHANGED remoteVars

\* app.py:230  data = q_audio.get()  (blocks while the queue is empty)
QueueGet ==
    /\ MainStep("get", "accept")
    /\ q_audio # <<>>
    /\ data' = Head(q_audio)
    /\ q_audio' = Tail(q_audio)
    /\ UNCHANGED <<listening_active, audio_lock, cb_pc, cb_frame, ret_pc,
                   stream_open, text, reply, speaker>>
    /\ UNCHANGED remoteVars

\* app.py:231-244  recognizer.AcceptWaveform(data): a final result with some
\* text, or a partial result; only a non-empty final text is answered
Accept ==
    /\ main_pc = "accept"
    /\ data' = NoFrame
    /\ \/ \E raw \in VoskTexts :
            /\ text' = FinalText(raw)
            /\ main_pc' = IF FinalText(raw) # "" THEN "query" ELSE "get"
       \/ /\ text' = text
          /\ main_pc' = "get"
    /\ UNCHANGED <<listening_active, audio_lock, q_audio, cb_pc, cb_frame, ret_pc,
                   stream_open, reply, speaker>>
    /\ UNCHANGED remoteVars

\* app.py:236-239  query_chroma_db(text), reply = answers[0], then
\* speak_text_sync(reply); an exception of the lookup leaves the loop (:248)
Query ==
    /\ main_pc = "query"
    /\ \/ /\ reply' \in query_chroma_db(text)
          /\ main_pc' = "sp_acq1"
          /\ ret_pc' = "get"
          /\ stream_open' = stream_open
       \/ /\ reply' = reply
          /\ main_pc' = "stopped"
          /\ ret_pc' = ret_pc
          /\ stream_open' = FALSE
    /\ UNCHANGED <<listening_active, audio_lock, q_audio, cb_pc, cb_frame,
                   data, text, speaker>>
    /\ UNCHANGED remoteVars

\* app.py:246-247  KeyboardInterrupt while the loop waits for audio
Interrupt ==
    /\ MainStep("get", "stopped")
    /\ stream_open' = FALSE
    /\ UNCHANGED <<listening_active, audio_lock, q_audio, cb_pc, cb_frame, ret_pc,
                   data, text, reply, speaker>>
    /\ UNCHANGED remoteVars

(***************************************************************************)
(* Server: texts, audio and results                                        *)
(***************************************************************************)
Conns == {1, 2}

\* an audio_data message: ok = the bytes decode as webm (:91), ms = len(audio)
NoAudio == [id |-> 0, ok |-> FALSE, ms |-> 0]

\* the audio a client may send: undecodable, just under and at the minimum length
AudioKinds == {[ok |-> FALSE, ms |-> 0], [ok |-> TRUE, ms |-> 299], [ok |-> TRUE, ms |-> 300]}

\* :100  "if len(audio) < 300"
MinAudioMs == 300

\* :113, :137, :145, :149, :175  texts the helpers return
ErrNoKeyTranscribe == "[ERROR: API key not configured]"
TranscriptionError == "[Transcription Error: e]"
FallbackPrompt == "I didn't catch that. Could you please repeat?"
ErrNoKeyResponse == "[ERROR: OpenAI API key not configured. Please set the OPENAI_API_KEY environment variable.]"
TroubleConnecting == "I'm having trouble connecting right now. Error: e"

\* :221, :254  error messages of process_audio
CouldNotUnderstand == "Could not understand audio. Please speak clearly and try again."
TookTooLong == "Processing took too long. Please try again."

\* what the transcription service may return before .strip() (:118-128)
WhisperTexts == {" ", "where is my parcel "}

\* what the chat model may answer (:169), already stripped
LLMTexts == {"BigShip shows it in real-time tracking."}

\* the guard with len(audio) taken for seconds instead of milliseconds
AudioTooShortSeconds(a) == a.ms * 1000 < MinAudioMs

\* :100  the minimum-duration guard of transcribe_audio_openai
AudioTooShort(a) == a.ms < MinAudioMs

\* :219  "if not transcription or transcription.startswith("[ERROR")"
TranscriptRejected(t) == t = "" \/ StartsWith(t, "[ERROR")

\* :144  "if not user_input.strip() or user_input.startswith("[ERROR")"
NeedsFallback(u) == Strip(u) = "" \/ StartsWith(u, "[ERROR")

\* :183-184  text_to_speech limits the text it speaks
TtsText(t) == IF Len(t) > 150 THEN SubSeq(t, 1, 147) \o "..." ELSE t

NoResult == [kind |-> "none"]
ErrorResult(msg) == [kind |-> "error", error |-> msg]
SuccessResult(t, r, a) ==
    [kind |-> "response", transcription |-> t, response |-> r, audio_base64 |-> a]

StateUpdate(b) == [type |-> "state_update", is_processing |-> b]

\* :288-301  the message websocket_endpoint sends for a result
ResultMessage(r, pt, m) ==
    IF r.kind = "error"
      THEN [type |-> "error", message |-> r.error, processing_time |-> pt]
      ELSE [type |-> "response", transcription |-> r.transcription,
            response |-> r.response, audio_base64 |-> r.audio_base64,
            processing_time |-> pt, metrics |-> m]

Call(stage, input) == [stage |-> stage, input |-> input]

(***************************************************************************)
(* PerformanceMonitor (:59-82)                                             *)
(***************************************************************************)
\* :62  self.metrics = {}
NoMetrics == [k \in {} |-> 0]

\* :67-71  the metrics start() installs
ZeroMetrics == [transcription_time |-> 0, response_time |-> 0, tts_time |-> 0]

\* :76  self.metrics[stage] = elapsed
Record(m, stage, elapsed) ==
    [k \in DOMAIN m \cup {stage} |-> IF k = stage THEN elapsed ELSE m[k]]

RECURSIVE SumOver(_, _)
SumOver(m, keys) ==
    IF keys = {} THEN 0
    ELSE LET k == CHOOSE x \in keys : TRUE IN m[k] + SumOver(m, keys \ {k})

\* :79-81  get_metrics
GetMetrics(m) ==
    [k \in DOMAIN m \cup {"total_time"} |->
        IF k = "total_time" THEN SumOver(m, DOMAIN m) ELSE m[k]]

\* how long a call of a collaborator may take, within the ticks that are followed
Durations == {d \in {0, 1} : clock + d <= MaxClock}

\* positions inside process_audio
PipelinePcs == {"transcribe", "respond", "tts", "tts_run", "finish"}

(***************************************************************************)
(* websocket_endpoint (:265-321)                                           *)
(***************************************************************************)
\* :267-269  accept the connection
SrvAccept(c) ==
    /\ srv_pc[c] = "none"
    /\ srv_pc' = [srv_pc EXCEPT ![c] = "recv"]
    /\ current_websocket' = c
    /\ UNCHANGED <<openai_api_key, is_processing, cur, transcription, response,
                   audio_base64, result, calls, c2s, s2c, sent, served>>
    /\ UNCHANGED timeVars
    /\ UNCHANGED nonServerVars

\* a handler that takes the newest message first
NextMessageNewest(q) == q[Len(q)]

\* the message receive_json hands to the handler (:273): the oldest one
NextMessage(q) == Head(q)

\* :273-285  receive an audio_data message, flag and announce processing,
\* enter process_audio
SrvReceive(c) ==
    /\ srv_pc[c] = "recv"
    /\ c2s[c] # <<>>
    /\ cur' = [cur EXCEPT ![c] = NextMessage(c2s[c])]
    /\ c2s' = [c2s EXCEPT ![c] = Tail(c2s[c])]
    /\ is_processing' = TRUE
    /\ s2c' = [s2c EXCEPT ![c] = Append(s2c[c], StateUpdate(TRUE))]
    /\ srv_pc' = [srv_pc EXCEPT ![c] = "transcribe"]
    /\ calls' = [calls EXCEPT ![c] = <<>>]
    /\ total_start_time' = [total_start_time EXCEPT ![c] = clock]
    /\ UNCHANGED <<openai_api_key, current_websocket, transcription, response,
                   audio_base64, result, sent, served>>
    /\ UNCHANGED <<clock, pm_start_time, pm_metrics, processing_time, metrics>>
    /\ UNCHANGED nonServerVars

\* :287-315  send the result, clear the flag, announce it, wait for the next
SrvReply(c) ==
    /\ srv_pc[c] = "reply"
    /\ s2c' = [s2c EXCEPT ![c] = s2c[c] \o
                 <<ResultMessage(result[c], processing_time[c], metrics[c]),
                   StateUpdate(FALSE)>>]
    /\ is_processing' = FALSE
    /\ served' = [served EXCEPT ![c] = served[c] + 1]
    /\ srv_pc' = [srv_pc EXCEPT ![c] = "recv"]
    /\ cur' = [cur EXCEPT ![c] = NoAudio]
    /\ transcription' = [transcription EXCEPT ![c] = ""]
    /\ response' = [response EXCEPT ![c] = ""]
    /\ audio_base64' = [audio_base64 EXCEPT ![c] = ""]
    /\ result' = [result EXCEPT ![c] = NoResult]
    /\ calls' = [calls EXCEPT ![c] = <<>>]
    /\ total_start_time' = [total_start_time EXCEPT ![c] = -1]
    /\ processing_time' = [processing_time EXCEPT ![c] = -1]
    /\ metrics' = [metrics EXCEPT ![c] = NoMetrics]
    /\ UNCHANGED <<openai_api_key, current_websocket, c2s, sent>>
    /\ UNCHANGED <<clock, pm_start_time, pm_metrics>>
    /\ UNCHANGED nonServerVars

\* :317-319  receive_json raises WebSocketDisconnect on an idle connection
SrvDisconnect(c) ==
    /\ srv_pc[c] = "recv"
    /\ c2s[c] = <<>>
    /\ srv_pc' = [srv_pc EXCEPT ![c] = "closed"]
    /\ current_websocket' = 0
    /\ UNCHANGED <<openai_api_key, is_processing, cur, transcription, response,
                   audio_base64, result, calls, c2s, s2c, sent, served>>
    /\ UNCHANGED timeVars
    /\ UNCHANGED nonServerVars

(***************************************************************************)
(* process_audio (:208-262) and its three stages                           *)
(***************************************************************************)
\* what transcribe_audio_openai(a) may return, with the calls it makes
\* (:84-137): a set of <<text, calls, whether line 125 records the time>>
TranscribeOutcomes(a) ==
    IF ~a.ok THEN {<<TranscriptionError, <<>>, FALSE>>}                \* :91 raises
    ELSE IF AudioTooShort(a) THEN {<<"", <<>>, FALSE>>}                \* :100-102
    ELSE IF ~openai_api_key THEN {<<ErrNoKeyTranscribe, <<>>, FALSE>>} \* :111-113
    ELSE {<<Strip(t), <<Call("whisper", "audio")>>, TRUE>> : t \in WhisperTexts}   \* :125-128
         \cup {<<TranscriptionError, <<Call("whisper", "audio")>>, FALSE>>}   \* :135-137

\* :214-223  stage 1 and the check of its result.  transcribe_audio_openai
\* has no await: it runs from start() (:88) to its return in one piece, and
\* the time its call takes passes inside it.
SrvTranscribe(c) ==
    /\ srv_pc[c] = "transcribe"
    /\ \E o \in TranscribeOutcomes(cur[c]) :
       \E d \in (IF o[2] = <<>> THEN {0} ELSE Durations) :
         /\ transcription' = [transcription EXCEPT ![c] = o[1]]
         /\ calls' = [calls EXCEPT ![c] = calls[c] \o o[2]]
         /\ clock' = clock + d
         /\ pm_start_time' = IF o[3] THEN clock + d ELSE clock
         /\ pm_metrics' = IF o[3] THEN Record(ZeroMetrics, "transcription_time", d)
                                  ELSE ZeroMetrics
         /\ IF TranscriptRejected(o[1])
              THEN /\ result' = [result EXCEPT ![c] = ErrorResult(CouldNotUnderstand)]
                   /\ processing_time' = [processing_time EXCEPT ![c] =
                                             clock + d - total_start_time[c]]
                   /\ srv_pc' = [srv_pc EXCEPT ![c] = "reply"]
              ELSE /\ result' = result
                   /\ processing_time' = processing_time
                   /\ srv_pc' = [srv_pc EXCEPT ![c] = "respond"]
    /\ UNCHANGED <<openai_api_key, is_processing, current_websocket, cur, response,
                   audio_base64, c2s, s2c, sent, served>>
    /\ UNCHANGED <<total_start_time, metrics>>
    /\ UNCHANGED nonServerVars

\* what get_openai_response(u) may return, with the calls it makes
\* (:139-175): a set of <<text, calls, whether line 167 records the time>>
ResponseOutcomes(u) ==
    IF NeedsFallback(u) THEN {<<FallbackPrompt, <<>>, FALSE>>}         \* :144-145
    ELSE IF ~openai_api_key THEN {<<ErrNoKeyResponse, <<>>, FALSE>>}   \* :148-149
    ELSE {<<t, <<Call("chat", u)>>, TRUE>> : t \in LLMTexts}           \* :156-171
         \cup {<<TroubleConnecting, <<Call("chat", u)>>, FALSE>>}      \* :173-175

\* :72-77  the monitor after record(stage) at time t
RecordedStart(t) == IF pm_start_time # -1 THEN t ELSE pm_start_time
RecordedMetrics(stage, t) ==
    IF pm_start_time # -1 THEN Record(pm_metrics, stage, t - pm_start_time)
    ELSE pm_metrics

\* :228-231  stage 2.  get_openai_response has no await either.
SrvRespond(c) ==
    /\ srv_pc[c] = "respond"
    /\ \E o \in ResponseOutcomes(transcription[c]) :
       \E d \in (IF o[2] = <<>> THEN {0} ELSE Durations) :
         /\ response' = [response EXCEPT ![c] = o[1]]
         /\ calls' = [calls EXCEPT ![c] = calls[c] \o o[2]]
         /\ clock' = clock + d
         /\ pm_start_time' = IF o[3] THEN RecordedStart(clock + d) ELSE pm_start_time
         /\ pm_metrics' = IF o[3] THEN RecordedMetrics("response_time", clock + d)
                                  ELSE pm_metrics
    /\ srv_pc' = [srv_pc EXCEPT ![c] = "tts"]
    /\ UNCHANGED <<openai_api_key, is_processing, current_websocket, cur,
                   transcription, audio_base64, result, c2s, s2c, sent, served>>
    /\ UNCHANGED <<total_start_time, processing_time, metrics>>
    /\ UNCHANGED nonServerVars

\* process_audio speaking the transcript instead of the answer
SynthesisInputTranscript(c) == transcription[c]

\* the text process_audio hands to text_to_speech (:235)
SynthesisInput(c) == response[c]

\* :234-235, :183-195  stage 3 starts streaming from the synthesizer
SrvTtsStart(c) ==
    /\ srv_pc[c] = "tts"
    /\ calls' = [calls EXCEPT ![c] = Append(calls[c], Call("tts", TtsText(SynthesisInput(c))))]
    /\ srv_pc' = [srv_pc EXCEPT ![c] = "tts_run"]
    /\ UNCHANGED <<openai_api_key, is_processing, current_websocket, cur,
                   transcription, response, audio_base64, result, c2s, s2c,
                   sent, served>>
    /\ UNCHANGED timeVars
    /\ UNCHANGED nonServerVars

\* :195-206, :236, :251-256  the stream ends with audio or with no audio
\* chunk (:195-202), or it raises (:204-206), or wait_for gives up after its
\* timeout
SrvTtsEnd(c) ==
    /\ srv_pc[c] = "tts_run"
    /\ \E d \in Durations :
         /\ clock' = clock + d
         /\ \/ /\ \E a \in {"QUJD", ""} : audio_base64' = [audio_base64 EXCEPT ![c] = a]
               /\ pm_start_time' = RecordedStart(clock + d)
               /\ pm_metrics' = RecordedMetrics("tts_time", clock + d)
               /\ srv_pc' = [srv_pc EXCEPT ![c] = "finish"]
               /\ UNCHANGED <<result, processing_time>>
            \/ /\ audio_base64' = [audio_base64 EXCEPT ![c] = ""]
               /\ srv_pc' = [srv_pc EXCEPT ![c] = "finish"]
               /\ UNCHANGED <<result, processing_time, pm_start_time, pm_metrics>>
            \/ /\ audio_base64' = audio_base64
               /\ srv_pc' = [srv_pc EXCEPT ![c] = "reply"]
               /\ result' = [result EXCEPT ![c] = ErrorResult(TookTooLong)]
               /\ processing_time' = [processing_time EXCEPT ![c] =
                                         clock + d - total_start_time[c]]
               /\ UNCHANGED <<pm_start_time, pm_metrics>>
    /\ UNCHANGED <<openai_api_key, is_processing, current_websocket, cur,
                   transcription, response, calls, c2s, s2c, sent, served>>
    /\ UNCHANGED <<total_start_time, metrics>>
    /\ UNCHANGED nonServerVars

\* :239-249  process_audio returns the success result
SrvFinish(c) ==
    /\ srv_pc[c] = "finish"
    /\ result' = [result EXCEPT ![c] =
                     SuccessResult(transcription[c], response[c], audio_base64[c])]
    /\ srv_pc' = [srv_pc EXCEPT ![c] = "reply"]
    /\ processing_time' = [processing_time EXCEPT ![c] = clock - total_start_time[c]]
    /\ metrics' = [metrics EXCEPT ![c] = GetMetrics(pm_metrics)]
    /\ UNCHANGED <<openai_api_key, is_processing, current_websocket, cur,
                   transcription, response, audio_base64, calls, c2s, s2c,
                   sent, served>>
    /\ UNCHANGED <<clock, pm_start_time, pm_metrics, total_start_time>>
    /\ UNCHANGED nonServerVars

(***************************************************************************)
(* Clients of the server, reduced to what they put on the connection       *)
(***************************************************************************)
TotalSent == sent[1] + sent[2]

\* a client sends an audio_data message (client side: :976-981)
ClientSend(c, a) ==
    /\ srv_pc[c] \notin {"none", "closed"}
    /\ TotalSent < MaxUtter
    /\ sent' = [sent EXCEPT ![c] = sent[c] + 1]
    /\ c2s' = [c2s EXCEPT ![c] = Append(c2s[c], [id |-> sent[c] + 1, ok |-> a.ok, ms |-> a.ms])]
    /\ UNCHANGED <<openai_api_key, is_processing, current_websocket, srv_pc, cur,
                   transcription, response, audio_base64, result, calls, s2c, served>>
    /\ UNCHANGED timeVars
    /\ UNCHANGED nonServerVars

\* a client takes the next message off the connection (client side: :728-731)
ClientDrain(c) ==
    /\ s2c[c] # <<>>
    /\ s2c' = [s2c EXCEPT ![c] = Tail(s2c[c])]
    /\ UNCHANGED <<openai_api_key, is_processing, current_websocket, srv_pc, cur,
                   transcription, response, audio_base64, result, calls, c2s,
                   sent, served>>
    /\ UNCHANGED timeVars
    /\ UNCHANGED nonServerVars

(***************************************************************************)
(* Browser client: constants and the VAD decision                          *)
(***************************************************************************)
\* :665
volumeThreshold == 25

\* loudness values the analyser may report: below volumeThreshold / 2,
\* between the two thresholds, above volumeThreshold
VadLouds == {5, 20, 40}

\* the loudness at the microphone of a client run: silence or speech
ClientLouds == {5, 40}

\* len(audio) of a recording that decodes, as the server will measure it
RecordedMs == {299, 300}

\* checkAudio re-arming the timer on every low frame
VadDecisionRearm(average) ==
    IF average > volumeThreshold /\ ~isRecording /\ ~isProcessing THEN "start"
    ELSE IF isRecording /\ 2 * average < volumeThreshold THEN "arm"
    ELSE IF isRecording /\ 2 * average > volumeThreshold
      THEN (IF silenceTimeout # -1 THEN "cancel" ELSE "none")
    ELSE "none"

\* checkAudio without the branch that cancels the timer
VadDecisionNoCancel(average) ==
    IF average > volumeThreshold /\ ~isRecording /\ ~isProcessing THEN "start"
    ELSE IF isRecording /\ 2 * average < volumeThreshold
      THEN (IF silenceTimeout = -1 THEN "arm" ELSE "none")
    ELSE "none"

\* :849-869  what checkAudio does with the average volume of a frame
VadDecision(average) ==
    IF average > volumeThreshold /\ ~isRecording /\ ~isProcessing THEN "start"
    ELSE IF isRecording /\ 2 * average < volumeThreshold
      THEN (IF silenceTimeout = -1 THEN "arm" ELSE "none")
    ELSE IF isRecording /\ 2 * average > volumeThreshold
      THEN (IF silenceTimeout # -1 THEN "cancel" ELSE "none")
    ELSE "none"

\* startRecording going on with the buffer as it is
StartRecorderKeepsBuffer ==
    /\ nRec < MaxRec
    /\ nRec' = nRec + 1
    /\ mediaRecorder' = nRec + 1
    /\ activeRecs' = activeRecs \cup {nRec + 1}
    /\ audioChunks' = audioChunks
    /\ isRecording' = TRUE

\* :922-948  startRecording once it has its stream: a new MediaRecorder, an
\* empty chunk buffer, isRecording, recorder started, updateUI('recording')
StartRecorder ==
    /\ nRec < MaxRec
    /\ nRec' = nRec + 1
    /\ mediaRecorder' = nRec + 1
    /\ activeRecs' = activeRecs \cup {nRec + 1}
    /\ audioChunks' = <<>>
    /\ isRecording' = TRUE

\* :957-969  stopRecording applies
CanStop == mediaRecorder # 0 /\ isRecording

\* :959, :964  mediaRecorder.stop() queues the recorder's dataavailable and
\* stop events; isRecording = false
StopRecorder ==
    /\ recEvents' = recEvents \o <<[kind |-> "data", rec |-> mediaRecorder],
                                   [kind |-> "stop", rec |-> mediaRecorder]>>
    /\ activeRecs' = activeRecs \ {mediaRecorder}
    /\ isRecording' = FALSE

\* :849-869 applied: d is the decision, uiBase what updateUI showed before
VadEffect(d, uiBase) ==
    /\ IF d = "start"
         THEN StartRecorder /\ ui' = "recording"
         ELSE /\ UNCHANGED <<nRec, mediaRecorder, activeRecs, audioChunks, isRecording>>
              /\ ui' = uiBase
    /\ silenceTimeout' = CASE d = "arm" -> silenceDelay
                           [] d = "cancel" -> -1
                           [] OTHER -> silenceTimeout

(***************************************************************************)
(* Browser client: monitorAudio and the silence timer (:831-875)           *)
(***************************************************************************)
\* :837-872  one frame callback of a checkAudio loop.  The loop ends when
\* auto mode is off (:838) or when the analyser is gone (:840 throws).
CheckAudioCore ==
    /\ monitors > 0
    /\ IF ~autoMode \/ ~microphone
         THEN /\ monitors' = monitors - 1
              /\ UNCHANGED <<nRec, mediaRecorder, activeRecs, audioChunks,
                             isRecording, ui, silenceTimeout>>
         ELSE /\ monitors' = monitors
              /\ VadEffect(VadDecision(level), ui)
    /\ UNCHANGED <<autoMode, cancelledUpTo, isProcessing, silenceDelay, microphone, playing, ws,
                   pendingAuto, pendingManual, recEvents, blobs, level>>
    /\ UNCHANGED <<localVars, serverVars>>

CheckAudio == CheckAudioCore /\ UNCHANGED vadVars

\* :855-861  the silence timer's callback
TimerFireCore ==
    /\ silenceTimeout = 0
    /\ IF isRecording /\ CanStop
         THEN StopRecorder /\ ui' = "processing"
         ELSE UNCHANGED <<recEvents, activeRecs, isRecording, ui>>
    /\ silenceTimeout' = -1
    /\ UNCHANGED <<autoMode, cancelledUpTo, isProcessing, silenceDelay, microphone, mediaRecorder,
                   audioChunks, playing, ws, pendingAuto, pendingManual, monitors,
                   blobs, nRec, level>>
    /\ UNCHANGED <<localVars, serverVars>>

TimerFire == TimerFireCore /\ UNCHANGED vadVars

\* one tick of time passes; l is the loudness at the microphone afterwards
TickCore(l) ==
    /\ silenceTimeout' = IF silenceTimeout > 0 THEN silenceTimeout - 1 ELSE silenceTimeout
    /\ level' = l
    /\ UNCHANGED <<autoMode, cancelledUpTo, isRecording, isProcessing, silenceDelay, microphone,
                   mediaRecorder, audioChunks, ui, playing, ws, pendingAuto,
                   pendingManual, monitors, activeRecs, recEvents, blobs, nRec>>
    /\ UNCHANGED <<localVars, serverVars>>

Tick == TickCore(level) /\ UNCHANGED vadVars

\* the sound at the microphone changes
Sound(l) ==
    /\ l # level
    /\ level' = l
    /\ UNCHANGED <<autoMode, cancelledUpTo, isRecording, isProcessing, silenceTimeout, silenceDelay,
                   microphone, mediaRecorder, audioChunks, ui, playing, ws,
                   pendingAuto, pendingManual, monitors, activeRecs, recEvents,
                   blobs, nRec>>
    /\ UNCHANGED <<localVars, serverVars, vadVars>>

(***************************************************************************)
(* Browser client: buttons and microphone grants (:745-829, :877-955)      *)
(***************************************************************************)
\* :976-981, :1003-1037  the uploads whose result the client has handled
RECURSIVE Results(_)
Results(q) ==
    IF q = <<>> THEN 0
    ELSE (IF Head(q).type \in {"response", "error"} THEN 1 ELSE 0) + Results(Tail(q))

Handled == served[ws] - Results(s2c[ws])

\* an upload has been sent whose result has not been handled
CallsInFlight == ws # 0 /\ sent[ws] > Handled

\* :780-794  toggleAutoMode, with startAutoListening up to its await (:798)
\* or the whole of stopAutoListening (:877-900), with at most limit requests
\* for the microphone and monitor loops
ToggleAutoModeWithin(limit) ==
    IF ~autoMode
      THEN /\ pendingAuto + pendingManual + monitors < limit
           /\ autoMode' = TRUE
           /\ UNCHANGED cancelledUpTo
           /\ pendingAuto' = pendingAuto + 1
           /\ UNCHANGED <<isRecording, microphone, silenceTimeout, ui,
                          activeRecs, recEvents>>
      ELSE /\ autoMode' = FALSE
           /\ cancelledUpTo' = IF CallsInFlight THEN sent[ws] ELSE cancelledUpTo
           /\ microphone' = FALSE
           /\ silenceTimeout' = -1
           /\ IF isRecording /\ CanStop
                THEN StopRecorder
                ELSE UNCHANGED <<recEvents, activeRecs, isRecording>>
           /\ ui' = "idle"
           /\ UNCHANGED pendingAuto

ToggleAutoMode == ToggleAutoModeWithin(MaxPending)

\* :758-760  click on the auto mode button
ClickAutoButtonWithin(limit) ==
    /\ ToggleAutoModeWithin(limit)
    /\ UNCHANGED <<isProcessing, silenceDelay, mediaRecorder, audioChunks, playing,
                   ws, pendingManual, monitors, blobs, nRec, level>>
    /\ UNCHANGED <<localVars, serverVars, vadVars>>

ClickAutoButton == ClickAutoButtonWithin(MaxPending)

\* :746-756  click on the microphone button, with at most limit requests for
\* the microphone pending
ClickMicWithin(limit) ==
    /\ IF autoMode
         THEN ToggleAutoModeWithin(limit) /\ UNCHANGED pendingManual
       ELSE IF isRecording
         THEN /\ IF CanStop
                   THEN StopRecorder /\ ui' = "processing"
                   ELSE UNCHANGED <<recEvents, activeRecs, isRecording, ui>>
              /\ UNCHANGED <<autoMode, cancelledUpTo, microphone, silenceTimeout, pendingAuto,
                             pendingManual>>
       ELSE /\ ~isProcessing
            /\ pendingAuto + pendingManual < limit
            /\ pendingManual' = pendingManual + 1
            /\ UNCHANGED <<autoMode, cancelledUpTo, microphone, silenceTimeout, pendingAuto,
                           recEvents, activeRecs, isRecording, ui>>
    /\ UNCHANGED <<isProcessing, silenceDelay, mediaRecorder, audioChunks, playing,
                   ws, monitors, blobs, nRec, level>>
    /\ UNCHANGED <<localVars, serverVars, vadVars>>

ClickMic == ClickMicWithin(MaxPending)

\* :808-819, :831-874  the microphone is granted to startAutoListening: the
\* audio graph is set up, updateUI('listening'), monitorAudio() runs its
\* first checkAudio and schedules the next
AutoGrantResolve ==
    /\ pendingAuto > 0
    /\ pendingAuto' = pendingAuto - 1
    /\ microphone' = TRUE
    /\ IF autoMode
         THEN /\ monitors' = monitors + 1
              /\ VadEffect(VadDecision(level), "listening")
         ELSE /\ monitors' = monitors
              /\ ui' = "listening"
              /\ UNCHANGED <<nRec, mediaRecorder, activeRecs, audioChunks,
                             isRecording, silenceTimeout>>
    /\ UNCHANGED <<autoMode, cancelledUpTo, isProcessing, silenceDelay, playing, ws, pendingManual,
                   recEvents, blobs, level>>
    /\ UNCHANGED <<localVars, serverVars, vadVars>>

\* :821-828  the microphone is refused to startAutoListening
AutoGrantDeny ==
    /\ pendingAuto > 0
    /\ pendingAuto' = pendingAuto - 1
    /\ autoMode' = FALSE
    /\ UNCHANGED <<cancelledUpTo, isRecording, isProcessing, silenceTimeout, silenceDelay,
                   microphone, mediaRecorder, audioChunks, ui, playing, ws,
                   pendingManual, monitors, activeRecs, recEvents, blobs, nRec,
                   level>>
    /\ UNCHANGED <<localVars, serverVars, vadVars>>

\* :911-948  the microphone is granted to a manual startRecording
ManualGrantResolve ==
    /\ pendingManual > 0
    /\ pendingManual' = pendingManual - 1
    /\ StartRecorder
    /\ ui' = "recording"
    /\ UNCHANGED <<autoMode, cancelledUpTo, isProcessing, silenceTimeout, silenceDelay, microphone,
                   playing, ws, pendingAuto, monitors, recEvents, blobs, level>>
    /\ UNCHANGED <<localVars, serverVars, vadVars>>

\* :950-954  the microphone is refused to a manual startRecording
ManualGrantDeny ==
    /\ pendingManual > 0
    /\ pendingManual' = pendingManual - 1
    /\ UNCHANGED <<autoMode, cancelledUpTo, isRecording, isProcessing, silenceTimeout, silenceDelay,
                   microphone, mediaRecorder, audioChunks, ui, playing, ws,
                   pendingAuto, monitors, activeRecs, recEvents, blobs, nRec,
                   level>>
    /\ UNCHANGED <<localVars, serverVars, vadVars>>

(***************************************************************************)
(* Browser client: recorder events, upload, server messages, playback      *)
(***************************************************************************)
\* :929-937  the next event of a stopped recorder is dispatched:
\* ondataavailable pushes a non-empty chunk, onstop calls processRecording,
\* which builds the Blob from this.audioChunks (:972) and awaits its bytes
RecorderEvent ==
    /\ recEvents # <<>>
    /\ recEvents' = Tail(recEvents)
    /\ IF Head(recEvents).kind = "data"
         THEN /\ \/ audioChunks' = Append(audioChunks, [rec |-> Head(recEvents).rec])
                 \/ audioChunks' = audioChunks
              /\ blobs' = blobs
         ELSE /\ blobs' = Append(blobs, audioChunks)
              /\ audioChunks' = audioChunks
    /\ UNCHANGED <<autoMode, cancelledUpTo, isRecording, isProcessing, silenceTimeout, silenceDelay,
                   microphone, mediaRecorder, ui, playing, ws, pendingAuto,
                   pendingManual, monitors, activeRecs, nRec, level>>
    /\ UNCHANGED <<localVars, serverVars, vadVars>>

\* :974-987  processRecording after its await: send audio_data, or give up
\* when the socket is not open
BlobReady ==
    /\ blobs # <<>>
    /\ blobs' = Tail(blobs)
    /\ IF ws # 0
         THEN /\ \E ms \in RecordedMs :
                   c2s' = [c2s EXCEPT ![ws] = Append(c2s[ws],
                             [id |-> sent[ws] + 1,
                              ok |-> Head(blobs) # <<>>,
                              ms |-> IF Head(blobs) # <<>> THEN ms ELSE 0,
                              chunks |-> Head(blobs)])]
              /\ sent' = [sent EXCEPT ![ws] = sent[ws] + 1]
              /\ ui' = ui
         ELSE /\ ui' = "idle"
              /\ UNCHANGED <<c2s, sent>>
    /\ UNCHANGED <<autoMode, cancelledUpTo, isRecording, isProcessing, silenceTimeout, silenceDelay,
                   microphone, mediaRecorder, audioChunks, playing, ws, pendingAuto,
                   pendingManual, monitors, activeRecs, recEvents, nRec, level>>
    /\ UNCHANGED <<srvPriv, s2c>>
    /\ UNCHANGED <<localVars, vadVars>>

\* handleResponse and handleError leaving the UI idle in both modes
UiAfterResultIdle == "idle"

\* :1017-1023, :1030-1036  where handleResponse and handleError leave the UI
UiAfterResult == IF autoMode THEN "listening" ELSE "idle"

\* handleResponse playing whatever the response carries
StartsPlaybackAlways(m) == TRUE

\* :1012  if (data.audio_base64): the empty string is falsy
StartsPlayback(m) == m.audio_base64 # ""

\* :728-731, :989-1037, :1062-1071  the next message of the server is handled
WsMessage ==
    /\ ws # 0
    /\ s2c[ws] # <<>>
    /\ s2c' = [s2c EXCEPT ![ws] = Tail(s2c[ws])]
    /\ LET m == Head(s2c[ws]) IN
         CASE m.type = "state_update" ->
                /\ isProcessing' = m.is_processing
                /\ UNCHANGED <<playing, ui>>
           [] m.type = "response" ->
                /\ playing' = IF StartsPlayback(m) THEN playing + 1 ELSE playing
                /\ ui' = UiAfterResult
                /\ UNCHANGED isProcessing
           [] m.type = "error" ->
                /\ ui' = UiAfterResult
                /\ UNCHANGED <<isProcessing, playing>>
    /\ UNCHANGED <<autoMode, cancelledUpTo, isRecording, silenceTimeout, silenceDelay, microphone,
                   mediaRecorder, audioChunks, ws, pendingAuto, pendingManual,
                   monitors, activeRecs, recEvents, blobs, nRec, level>>
    /\ UNCHANGED <<srvPriv, c2s, sent>>
    /\ UNCHANGED <<localVars, vadVars>>

\* an Audio element started by playAudio (:1064-1065) reaches its end
PlaybackEnded ==
    /\ playing > 0
    /\ playing' = playing - 1
    /\ UNCHANGED <<autoMode, cancelledUpTo, isRecording, isProcessing, silenceTimeout, silenceDelay,
                   microphone, mediaRecorder, audioChunks, ui, ws, pendingAuto,
                   pendingManual, monitors, activeRecs, recEvents, blobs, nRec,
                   level>>
    /\ UNCHANGED <<localVars, serverVars, vadVars>>


(***************************************************************************)
(* Specification of the server with two connections                        *)
(***************************************************************************)
ServerFresh(pc) ==
    /\ is_processing = FALSE
    /\ current_websocket = 0
    /\ srv_pc = [c \in Conns |-> pc]
    /\ cur = [c \in Conns |-> NoAudio]
    /\ transcription = [c \in Conns |-> ""]
    /\ response = [c \in Conns |-> ""]
    /\ audio_base64 = [c \in Conns |-> ""]
    /\ result = [c \in Conns |-> NoResult]
    /\ calls = [c \in Conns |-> <<>>]
    /\ c2s = [c \in Conns |-> <<>>]
    /\ s2c = [c \in Conns |-> <<>>]
    /\ sent = [c \in Conns |-> 0]
    /\ served = [c \in Conns |-> 0]
    /\ pm_start_time = -1
    /\ pm_metrics = NoMetrics
    /\ total_start_time = [c \in Conns |-> -1]
    /\ processing_time = [c \in Conns |-> -1]
    /\ metrics = [c \in Conns |-> NoMetrics]

\* the local loop is not running
LocalOff ==
    /\ listening_active = TRUE
    /\ audio_lock = FALSE
    /\ q_audio = <<>>
    /\ cb_pc = "idle"
    /\ cb_frame = NoFrame
    /\ main_pc = "stopped"
    /\ ret_pc = "open"
    /\ stream_open = FALSE
    /\ data = NoFrame
    /\ text = ""
    /\ reply = ""
    /\ speaker = "silent"

\* no server connection will be made
ServerOff ==
    /\ openai_api_key = TRUE
    /\ clock = MaxClock
    /\ ServerFresh("closed")

\* the run starts where the ticks that are followed end: call durations are
\* not followed
InitServer ==
    /\ LocalOff
    /\ ClientOff
    /\ VadOff
    /\ openai_api_key \in BOOLEAN
    /\ clock = MaxClock
    /\ ServerFresh("none")

\* the server with a key, followed over MaxClock ticks from its start
InitTimed ==
    /\ LocalOff
    /\ ClientOff
    /\ VadOff
    /\ openai_api_key = TRUE
    /\ clock = 0
    /\ ServerFresh("none")

\* :273-315  one pass of the handler's loop
PipelineStep(c) ==
    \/ SrvReceive(c)
    \/ SrvTranscribe(c)
    \/ SrvRespond(c)
    \/ SrvTtsStart(c)
    \/ SrvTtsEnd(c)
    \/ SrvFinish(c)
    \/ SrvReply(c)

ServerStep(c) ==
    \/ SrvAccept(c)
    \/ PipelineStep(c)
    \/ SrvDisconnect(c)

NextServer ==
    \/ \E c \in Conns : ServerStep(c)
    \/ \E c \in Conns, a \in AudioKinds : ClientSend(c, a)
    \/ \E c \in Conns : ClientDrain(c)

SpecServer == InitServer /\ [][NextServer]_vars

SpecTimed == InitTimed /\ [][NextServer]_vars

\* stage 1 deciding without the transcription service (:91, :100-102, :111-113)
SrvTranscribeLocal(c) == SrvTranscribe(c) /\ calls'[c] = calls[c]

\* What the event loop and the collaborators' own limits guarantee.  A ready
\* coroutine is resumed; the chat call carries timeout=10 (:164) and raises
\* when that is over; wait_for cancels text_to_speech at its await after
\* 10 s (:234-237).  The transcription call (:118-123) is a blocking call
\* with no timeout of its own inside a coroutine that never awaits, so
\* wait_for (:214-217) cannot interrupt it: nothing in the source makes it
\* return.
FairServer ==
    \A c \in Conns :
        /\ WF_vars(SrvReceive(c))
        /\ WF_vars(SrvTranscribeLocal(c))
        /\ WF_vars(SrvRespond(c))
        /\ WF_vars(SrvTtsStart(c))
        /\ WF_vars(SrvTtsEnd(c))
        /\ WF_vars(SrvFinish(c))
        /\ WF_vars(SrvReply(c))

SpecServerFair == SpecServer /\ FairServer


(***************************************************************************)
(* Specification of the local loop                                         *)
(***************************************************************************)
InitLocal ==
    /\ ServerOff
    /\ ClientOff
    /\ VadOff
    /\ listening_active = TRUE
    /\ audio_lock = FALSE
    /\ q_audio = <<>>
    /\ cb_pc = "idle"
    /\ cb_frame = NoFrame
    /\ main_pc = "greet"
    /\ ret_pc = "open"
    /\ stream_open = FALSE
    /\ data = NoFrame
    /\ text = ""
    /\ reply = ""
    /\ speaker = "silent"

CallbackNext ==
    \/ \E l \in Louds : CbEnter(l)
    \/ CbCheck
    \/ CbPut

MainNext ==
    \/ Greet
    \/ OpenStream
    \/ QueueGet
    \/ Accept
    \/ Query
    \/ Interrupt
    \/ SpeakAcquire1
    \/ SpeakSetGate
    \/ SpeakRelease1
    \/ SpeakSynthesize
    \/ SpeakConvert
    \/ SpeakPlay
    \/ SpeakWait
    \/ SpeakSleep
    \/ SpeakAcquire2
    \/ SpeakClearGate
    \/ SpeakRelease2

NextLocal == CallbackNext \/ MainNext

SpecLocal == InitLocal /\ [][NextLocal]_vars

TypeLocal ==
    /\ listening_active \in BOOLEAN
    /\ audio_lock \in BOOLEAN
    /\ cb_pc \in {"idle", "entered", "put"}
    /\ main_pc \in SpeakPcs \cup {"greet", "open", "get", "accept", "query", "stopped"}
    /\ speaker \in {"silent", "playing"}

(***************************************************************************)
(* Specification of the browser client with its server.  The page is       *)
(* loaded and its socket is open (:671-676, :709-743, :265-269).           *)
(***************************************************************************)
InitClient ==
    /\ LocalOff
    /\ VadOff
    /\ ClientConstructed
    /\ silenceDelay = SilenceTicks
    /\ ws = 1
    /\ openai_api_key = TRUE
    /\ is_processing = FALSE
    /\ current_websocket = 1
    /\ srv_pc = [c \in Conns |-> IF c = 1 THEN "recv" ELSE "none"]
    /\ cur = [c \in Conns |-> NoAudio]
    /\ transcription = [c \in Conns |-> ""]
    /\ response = [c \in Conns |-> ""]
    /\ audio_base64 = [c \in Conns |-> ""]
    /\ result = [c \in Conns |-> NoResult]
    /\ calls = [c \in Conns |-> <<>>]
    /\ c2s = [c \in Conns |-> <<>>]
    /\ s2c = [c \in Conns |-> <<>>]
    /\ sent = [c \in Conns |-> 0]
    /\ served = [c \in Conns |-> 0]
    /\ clock = MaxClock
    /\ pm_start_time = -1
    /\ pm_metrics = NoMetrics
    /\ total_start_time = [c \in Conns |-> -1]
    /\ processing_time = [c \in Conns |-> -1]
    /\ metrics = [c \in Conns |-> NoMetrics]

NextClient ==
    \/ ClickAutoButton
    \/ ClickMic
    \/ AutoGrantResolve
    \/ AutoGrantDeny
    \/ ManualGrantResolve
    \/ ManualGrantDeny
    \/ CheckAudio
    \/ TimerFire
    \/ Tick
    \/ \E l \in ClientLouds : Sound(l)
    \/ RecorderEvent
    \/ BlobReady
    \/ WsMessage
    \/ PlaybackEnded
    \/ PipelineStep(1)

SpecClient == InitClient /\ [][NextClient]_vars

\* What the browser guarantees: animation frames, due timers, recorder
\* events, promise continuations and socket messages are delivered, time
\* passes, a started playback ends; the server side as in FairServer.
\* Nothing makes the user click, speak or answer the permission prompt.
FairClient ==
    /\ WF_vars(CheckAudio)
    /\ WF_vars(TimerFire)
    /\ WF_vars(Tick)
    /\ WF_vars(RecorderEvent)
    /\ WF_vars(BlobReady)
    /\ WF_vars(WsMessage)
    /\ WF_vars(PlaybackEnded)
    /\ WF_vars(SrvReceive(1))
    /\ WF_vars(SrvTranscribeLocal(1))
    /\ WF_vars(SrvRespond(1))
    /\ WF_vars(SrvTtsStart(1))
    /\ WF_vars(SrvTtsEnd(1))
    /\ WF_vars(SrvFinish(1))
    /\ WF_vars(SrvReply(1))

SpecClientFair == SpecClient /\ FairClient

(***************************************************************************)
(* Specification of the VAD scenario runs: auto mode is listening, one     *)
(* frame is sampled per tick and the silence timer fires in the tick in    *)
(* which it is due.                                                        *)
(***************************************************************************)
\* the loudness sequence of the scenario
Scenario == <<5, 5, 40, 60, 55, 10, 5, 5, 5>>

\* every loudness sequence of VadLen frames
ShortInputs == [1..VadLen -> VadLouds]

InitVad ==
    /\ LocalOff
    /\ ServerOff
    /\ levels \in {Scenario} \cup ShortInputs
    /\ now = 0
    /\ frameDone = FALSE
    /\ events = <<>>
    /\ autoMode = TRUE
    /\ cancelledUpTo = 0
    /\ isRecording = FALSE
    /\ isProcessing = FALSE
    /\ silenceTimeout = -1
    /\ silenceDelay = 3
    /\ microphone = TRUE
    /\ mediaRecorder = 0
    /\ audioChunks = <<>>
    /\ ui = "listening"
    /\ playing = 0
    /\ ws = 0
    /\ pendingAuto = 0
    /\ pendingManual = 0
    /\ monitors = 1
    /\ activeRecs = {}
    /\ recEvents = <<>>
    /\ blobs = <<>>
    /\ nRec = 0
    /\ level = levels[1]

\* the frame of index now is sampled by checkAudio
VadFrame ==
    /\ ~frameDone
    /\ CheckAudioCore
    /\ frameDone' = TRUE
    /\ events' = IF ~isRecording /\ isRecording'
                   THEN Append(events, <<"SpeechStart", now>>)
                   ELSE events
    /\ UNCHANGED <<levels, now>>

\* the silence timer fires in the tick of index now
VadTimer ==
    /\ TimerFireCore
    /\ events' = IF isRecording /\ ~isRecording'
                   THEN Append(events, <<"SpeechStop", now>>)
                   ELSE events
    /\ UNCHANGED <<levels, now, frameDone>>

\* the next tick begins
VadTick ==
    /\ frameDone
    /\ silenceTimeout # 0
    /\ now + 1 < Len(levels)
    /\ TickCore(levels[now + 2])
    /\ now' = now + 1
    /\ frameDone' = FALSE
    /\ UNCHANGED <<levels, events>>

NextVad == VadFrame \/ VadTimer \/ VadTick

SpecVad == InitVad /\ [][NextVad]_vars

(***************************************************************************)
(* Claims about the local loop                                             *)
(***************************************************************************)
\* C1: a frame that arrives while the playback gate is held (its callback was
\* invoked while listening_active was FALSE) is never enqueued and never handed
\* to the recognizer, whatever its loudness and however the capture callback
\* interleaves with speak_text.
C1_GatedFrameNeverEnqueued ==
    /\ \A i \in 1..Len(q_audio) : ~q_audio[i].gated
    /\ ~data.gated

\* app.py:152-179  speak_text is between setting the gate and the end of the
\* trailing guard
GateHeldPcs == {"sp_rel1", "sp_tts", "sp_conv", "sp_play", "sp_wait", "sp_sleep",
                "sp_acq2", "sp_unset"}

\* the flag is set before any audio plays and is not cleared before the
\* playback and the guard are over
GateCoversPlayback ==
    /\ speaker = "playing" => ~listening_active
    /\ main_pc \in GateHeldPcs => ~listening_active

\* this step writes listening_active (app.py:152, :181)
WritesGate == listening_active' # listening_active

\* this step is the capture callback reading listening_active (app.py:144)
ReadsGate == cb_pc = "entered" /\ cb_pc' # "entered"

\* C21: the gate flag is set before assistant audio plays and cleared only
\* after playback and the trailing guard; every write of the flag is made
\* with audio_lock held, and no read of it happens while another thread
\* holds the lock.
C21_GateDiscipline ==
    /\ []GateCoversPlayback
    /\ [][WritesGate => (audio_lock /\ audio_lock')]_vars
    /\ [][ReadsGate => ~audio_lock]_vars

\* C22: in the browser client isRecording and isProcessing are never both
\* true, in any interleaving of clicks, monitor frames and state_update
\* messages.
C22_OneTurnState == ~(isRecording /\ isProcessing)

\* a result assembled key by key, in which a payload that is empty is left out
ReturnedPartial(c) ==
    IF result[c].kind = "error"
      THEN [error |-> result[c].error, processing_time |-> processing_time[c]]
    ELSE IF result[c].audio_base64 = ""
      THEN [transcription |-> result[c].transcription,
            response |-> result[c].response,
            processing_time |-> processing_time[c]]
      ELSE [transcription |-> result[c].transcription,
            response |-> result[c].response,
            audio_base64 |-> result[c].audio_base64,
            processing_time |-> processing_time[c], metrics |-> metrics[c]]

\* :220-223, :243-249, :251-262  the dict process_audio returns
Returned(c) ==
    IF result[c].kind = "error"
      THEN [error |-> result[c].error, processing_time |-> processing_time[c]]
      ELSE [transcription |-> result[c].transcription,
            response |-> result[c].response,
            audio_base64 |-> result[c].audio_base64,
            processing_time |-> processing_time[c], metrics |-> metrics[c]]

\* :286  process_audio has returned to websocket_endpoint
HasReturned(c) == srv_pc[c] = "reply"

\* C23: every result process_audio returns carries the per-stage timings, a
\* failure result just as a success result.
C23_EveryResultHasTimings ==
    \A c \in Conns : HasReturned(c) => "metrics" \in DOMAIN Returned(c)

\* the two shapes of a result
ErrorKeys == {"error", "processing_time"}
SuccessKeys == {"transcription", "response", "audio_base64", "processing_time",
                "metrics"}

IsCompleteResult(r) ==
    \/ /\ DOMAIN r = ErrorKeys
       /\ r.error # ""
       /\ r.processing_time >= 0
    \/ /\ DOMAIN r = SuccessKeys
       /\ r.transcription # ""
       /\ r.response # ""
       /\ r.processing_time >= 0
       /\ "total_time" \in DOMAIN r.metrics

\* this step leaves process_audio on connection c
LeavesPipeline(c) == srv_pc[c] \in PipelinePcs /\ srv_pc'[c] \notin PipelinePcs

\* C24: process_audio ends every call by returning one result, which is either
\* an error result (message and elapsed time only) or a success result with
\* transcription, response, audio, elapsed time and metrics; never a mixture,
\* and no call ends without a result.
C24_CompleteOrAbsent ==
    /\ [](\A c \in Conns : HasReturned(c) => IsCompleteResult(Returned(c)))
    /\ [][\A c \in Conns : LeavesPipeline(c) =>
            (HasReturned(c)' /\ result'[c] # NoResult)]_vars

\* a call that timed out in synthesis has returned its error result
C24_Witness ==
    \E c \in Conns : HasReturned(c) /\ result[c] = ErrorResult(TookTooLong)

(***************************************************************************)
(* End of a session (:317-321)                                             *)
(***************************************************************************)
\* :273, :320-321  receive_json, or the handling of a message that is no
\* audio_data, raises something other than WebSocketDisconnect (a frame that
\* is not JSON, a message without "type"): the handler logs and returns
SrvLoopError(c) ==
    /\ srv_pc[c] = "recv"
    /\ srv_pc' = [srv_pc EXCEPT ![c] = "closed"]
    /\ UNCHANGED <<openai_api_key, is_processing, current_websocket, cur,
                   transcription, response, audio_base64, result, calls, c2s, s2c,
                   sent, served>>
    /\ UNCHANGED timeVars
    /\ UNCHANGED nonServerVars

\* :288-321  the client has gone while its call was in the pipeline: the send
\* of the result raises, so does the send in the except block (:305) and the
\* one in the finally block (:312) after the flag is cleared (:311).  What
\* is raised depends on the websocket library: WebSocketDisconnect (:317-319)
\* or another exception (:320-321).
SrvSendFails(c) ==
    /\ srv_pc[c] = "reply"
    /\ is_processing' = FALSE
    /\ \E disconnect \in BOOLEAN :
         current_websocket' = IF disconnect THEN 0 ELSE current_websocket
    /\ srv_pc' = [srv_pc EXCEPT ![c] = "closed"]
    /\ cur' = [cur EXCEPT ![c] = NoAudio]
    /\ transcription' = [transcription EXCEPT ![c] = ""]
    /\ response' = [response EXCEPT ![c] = ""]
    /\ audio_base64' = [audio_base64 EXCEPT ![c] = ""]
    /\ result' = [result EXCEPT ![c] = NoResult]
    /\ calls' = [calls EXCEPT ![c] = <<>>]
    /\ total_start_time' = [total_start_time EXCEPT ![c] = -1]
    /\ processing_time' = [processing_time EXCEPT ![c] = -1]
    /\ metrics' = [metrics EXCEPT ![c] = NoMetrics]
    /\ UNCHANGED <<openai_api_key, c2s, s2c, sent, served>>
    /\ UNCHANGED <<clock, pm_start_time, pm_metrics>>
    /\ UNCHANGED nonServerVars

\* :305  the message of the handler's own except block
FailedToProcess == "Failed to process audio: e"

\* :283-315  the audio field is missing or is not base64: :285 raises before
\* process_audio is called; the except block sends its error (:303-307) and
\* the finally block clears the flag and announces it (:309-315)
SrvHandlerRaises(c) ==
    /\ srv_pc[c] = "transcribe"
    /\ s2c' = [s2c EXCEPT ![c] = s2c[c] \o
                 <<[type |-> "error", message |-> FailedToProcess],
                   StateUpdate(FALSE)>>]
    /\ is_processing' = FALSE
    /\ served' = [served EXCEPT ![c] = served[c] + 1]
    /\ srv_pc' = [srv_pc EXCEPT ![c] = "recv"]
    /\ cur' = [cur EXCEPT ![c] = NoAudio]
    /\ calls' = [calls EXCEPT ![c] = <<>>]
    /\ total_start_time' = [total_start_time EXCEPT ![c] = -1]
    /\ UNCHANGED <<openai_api_key, current_websocket, transcription, response,
                   audio_base64, result, c2s, sent>>
    /\ UNCHANGED <<clock, pm_start_time, pm_metrics, processing_time, metrics>>
    /\ UNCHANGED nonServerVars

NextTeardown ==
    \/ NextServer
    \/ \E c \in Conns : SrvHandlerRaises(c)
    \/ \E c \in Conns : SrvLoopError(c)
    \/ \E c \in Conns : SrvSendFails(c)

SpecTeardown == InitServer /\ [][NextTeardown]_vars

\* this step ends the session of connection c
SessionEnds(c) == srv_pc[c] # "closed" /\ srv_pc'[c] = "closed"

\* C25: whenever a websocket session ends, by a disconnect or by any other
\* error in the receive loop, the processing flag is false afterwards and
\* current_websocket does not refer to the closed websocket.
C25_TeardownDiscards ==
    [][\A c \in Conns : SessionEnds(c) =>
          (~is_processing' /\ current_websocket' # c)]_vars

\* the messages this step puts on connection c
Emitted(c) ==
    IF Len(s2c'[c]) > Len(s2c[c])
      THEN SubSeq(s2c'[c], Len(s2c[c]) + 1, Len(s2c'[c]))
      ELSE <<>>

\* :275  the handler takes an audio_data message
TakesMessage(c) == srv_pc[c] = "recv" /\ srv_pc'[c] \in PipelinePcs

\* :309-315  the handler is through with its message and back at receive_json
DoneWithMessage(c) == srv_pc[c] \in PipelinePcs \cup {"reply"} /\ srv_pc'[c] = "recv"

\* state_update(true) when the message is taken, one result message and
\* state_update(false) when it is done, nothing in between
ReplyOrder(c) ==
    /\ TakesMessage(c) => Emitted(c) = <<StateUpdate(TRUE)>>
    /\ DoneWithMessage(c) =>
          /\ Len(Emitted(c)) = 2
          /\ Emitted(c)[1].type \in {"response", "error"}
          /\ Emitted(c)[2] = StateUpdate(FALSE)
    /\ ~(TakesMessage(c) \/ DoneWithMessage(c)) => Emitted(c) = <<>>

\* connection c is between taking a message and being done with it
HandlingMessage(c) == srv_pc[c] \in PipelinePcs \cup {"reply"}

\* C30: for every audio_data message the server emits state_update(true),
\* then exactly one result message, then state_update(false); the processing
\* flag is true while a connection handles a message, and false again when
\* the message is handled, on every path.
C30_ReplyProtocol ==
    /\ [][\A c \in Conns : ReplyOrder(c)]_vars
    /\ [](\A c \in Conns : HandlingMessage(c) => is_processing)
    /\ [][\A c \in Conns : DoneWithMessage(c) => ~is_processing']_vars

(***************************************************************************)
(* Both deployments: a run is either the local loop or the server          *)
(***************************************************************************)
InitBoth == InitLocal \/ InitServer

NextBoth == NextLocal \/ NextServer

SpecBoth == InitBoth /\ [][NextBoth]_vars

(***************************************************************************)
(* Claims about the pipeline and the sessions                              *)
(***************************************************************************)
\* process_audio has been entered for the message and has passed stage 1
AfterTranscribe(c) == srv_pc[c] \in {"respond", "tts", "tts_run", "finish", "reply"}

InFlight(c) == IF srv_pc[c] \in PipelinePcs \cup {"reply"} THEN 1 ELSE 0

HasCall(c, stage) == \E i \in 1..Len(calls[c]) : calls[c][i].stage = stage

\* C4: per session at most one pipeline invocation is active and the
\* utterances are processed in arrival order without overlap: the message a
\* connection is processing is always the one right after the last one it
\* answered, every other message sent is still waiting in the connection, and
\* in the local loop nothing is fed to the recognizer while an answer is being
\* looked up or spoken.
C4_OneAtATimeInOrder ==
    /\ \A c \in Conns :
         /\ served[c] + InFlight(c) + Len(c2s[c]) = sent[c]
         /\ InFlight(c) = 1 => cur[c].id = served[c] + 1
         /\ InFlight(c) = 0 => cur[c] = NoAudio
         /\ \A i \in 1..Len(c2s[c]) : c2s[c][i].id = served[c] + InFlight(c) + i
    /\ main_pc \in {"query"} \cup SpeakPcs => data = NoFrame

\* C4 witness: a second audio_data message waits while the first is in process_audio
C4_Witness ==
    \E c \in Conns : srv_pc[c] \in PipelinePcs /\ cur[c].id = 1 /\ Len(c2s[c]) >= 1

IsEmptyOrErrorMarker(t) ==
    t = "" \/ StartsWith(t, "[ERROR") \/ StartsWith(t, "[Transcription Error:")

TranscriberFailed(t) == StartsWith(t, "[ERROR") \/ StartsWith(t, "[Transcription Error:")

\* C10: whenever the transcriber ends in an error the answerer is never
\* called and the result is the failure of the transcribe stage.
C10_TranscribeErrorStopsPipeline ==
    \A c \in Conns :
        (AfterTranscribe(c) /\ TranscriberFailed(transcription[c]))
        => /\ ~HasCall(c, "chat")
           /\ srv_pc[c] = "reply" /\ result[c] = ErrorResult(CouldNotUnderstand)

\* the answerer ended in an error: missing key (:149), or an exception or
\* the 10 s timeout of the chat call (:173-175)
AnswerFailed(r) == r \in {ErrNoKeyResponse, TroubleConnecting}

\* C11: once the answer stage has failed or timed out the synthesizer is
\* never called and process_audio returns a failure result.
C11_FailedAnswerStopsPipeline ==
    \A c \in Conns :
        (srv_pc[c] \in {"tts", "tts_run", "finish", "reply"} /\ AnswerFailed(response[c]))
        => /\ ~HasCall(c, "tts")
           /\ srv_pc[c] = "reply" /\ result[c].kind = "error"

\* the three stage times the result of session c carries
Stages == {"transcription_time", "response_time", "tts_time"}

\* process_audio of session c has returned a success whose three payloads
\* all came from their collaborator
AllStagesSucceeded(c) ==
    /\ srv_pc[c] = "reply"
    /\ result[c].kind = "response"
    /\ result[c].response \in LLMTexts
    /\ result[c].audio_base64 # ""
    /\ HasCall(c, "whisper") /\ HasCall(c, "chat") /\ HasCall(c, "tts")

\* C12: when all three stages succeed the result carries a time for each
\* stage, and these sum to the processing time it reports, also when
\* another session runs its pipeline concurrently.
C12_TimingsSumToTotal ==
    \A c \in Conns :
        AllStagesSucceeded(c)
        => /\ Stages \subseteq DOMAIN metrics[c]
           /\ SumOver(metrics[c], Stages) = processing_time[c]

\* connection c is open: its websocket_endpoint is between accept and the
\* disconnect
Connected(c) == srv_pc[c] \notin {"none", "closed"}

\* C19: sessions share no state.  What a session set for itself is what it
\* finds: while its process_audio runs the processing flag is set, and
\* while it is connected the websocket reference is not None, whatever the
\* other session does.
C19_SessionsIsolated ==
    \A c \in Conns :
        /\ srv_pc[c] \in PipelinePcs => is_processing
        /\ Connected(c) => current_websocket # 0

\* C15: every invocation of process_audio eventually returns a result,
\* whatever the transcriber, the answerer and the synthesizer do.
C15_PipelineAlwaysReturns ==
    \A c \in Conns : (srv_pc[c] \in PipelinePcs) ~> (srv_pc[c] = "reply")

\* C20: a frame produced while the main thread is answering an utterance
\* or speaking is never buffered: it is not put on the queue between the
\* capture callback and the main loop, and the main loop never takes it.
C20_BusyFrameNeverBuffered ==
    /\ \A i \in 1..Len(q_audio) : ~q_audio[i].busy
    /\ ~data.busy

(***************************************************************************)
(* Claims about the browser client                                         *)
(***************************************************************************)
\* a step in which a frame sampled by monitorAudio opens a recording
FrameStartsRecording ==
    /\ CheckAudio \/ AutoGrantResolve
    /\ ~isRecording
    /\ isRecording'

\* C2: while an answer's audio is playing the client does not show Listening
\* and no frame sampled by monitorAudio starts a recording.
C2_SuppressedWhileSpeaking ==
    [][/\ playing' > 0 => ui' # "listening"
       /\ playing > 0 => ~FrameStartsRecording]_vars

\* a sealed recording has not yet had its result handled and the server's
\* "processing finished" has not yet been handled
UtteranceInFlight ==
    \/ recEvents # <<>>
    \/ blobs # <<>>
    \/ /\ ws # 0
       /\ \/ c2s[ws] # <<>>
          \/ srv_pc[ws] \in PipelinePcs \cup {"reply"}
          \/ s2c[ws] # <<>>

\* C3: from stopRecording until the result and the server's state_update
\* (false) have been handled, no frame opens a new recording.
C3_SingleFlight == [][UtteranceInFlight => ~FrameStartsRecording]_vars

\* C6: the silence timer closes a recording only while the loudness is
\* below volumeThreshold / 2: a dip that has ended by the time the timer is
\* due does not close it, however late the frames are sampled.
C6_DipNeverTruncates ==
    [][TimerFire /\ isRecording /\ ~isRecording' => 2 * level < volumeThreshold]_vars

(***************************************************************************)
(* Claims about the VAD scenario runs                                      *)
(***************************************************************************)
\* frame i (counted from 0) of the run is below volumeThreshold / 2
LowFrame(i) == 2 * levels[i + 1] < volumeThreshold

\* C5: a SpeechStop at index i is emitted only when the silenceDelay frames
\* before i were all below volumeThreshold / 2, and once a frame above
\* volumeThreshold / 2 has been sampled while recording no timer is pending
\* and the recording is still open.
C5_ShortDipKeepsRecording ==
    /\ \A k \in 1..Len(events) :
         events[k][1] = "SpeechStop" =>
           /\ events[k][2] >= silenceDelay
           /\ \A j \in (events[k][2] - silenceDelay)..(events[k][2] - 1) : LowFrame(j)
    /\ (frameDone /\ isRecording /\ ~LowFrame(now)) => silenceTimeout = -1

\* a recording opened at index 0 saw a low frame at index now - 1 and a
\* frame above volumeThreshold / 2 at index now, and is still open
C5_Witness ==
    /\ now >= 2
    /\ frameDone
    /\ events = <<<<"SpeechStart", 0>>>>
    /\ LowFrame(now - 1)
    /\ ~LowFrame(now)
    /\ isRecording

SpeechStartAt2 == <<"SpeechStart", 2>>
SpeechStopAt8 == <<"SpeechStop", 8>>

\* C7: on the scenario's sequence the events are, at every point of the run,
\* nothing before frame 2 is sampled, then SpeechStart at index 2 alone until
\* the timer fires in tick 8, then SpeechStart at 2 and SpeechStop at 8.
C7_ScenarioEvents ==
    levels = Scenario =>
      events = IF now < 2 \/ (now = 2 /\ ~frameDone) THEN <<>>
               ELSE IF now < 8 \/ (now = 8 /\ silenceTimeout = 0) THEN <<SpeechStartAt2>>
               ELSE <<SpeechStartAt2, SpeechStopAt8>>

\* the scenario has run to its end
C7_Witness ==
    /\ levels = Scenario
    /\ now = 8
    /\ frameDone
    /\ events = <<SpeechStartAt2, SpeechStopAt8>>

\* the client handles the next message of the server in this step
HandlesNext ==
    /\ ws # 0
    /\ s2c[ws] # <<>>
    /\ s2c'[ws] = Tail(s2c[ws])

\* the message it handles
NextMsg == Head(s2c[ws])

\* a success result whose synthesis gave no audio: no chunk (:195-202) or
\* an exception (:204-206)
NoAudioResponse(m) == m.type = "response" /\ m.audio_base64 = ""

\* C13: when the synthesizer yields no audio the pipeline still returns a
\* success, with empty audio; handling it starts no playback and, with auto
\* mode on, shows Listening.
C13_NoAudioNoPlayback ==
    /\ [](\A c \in Conns :
            (srv_pc[c] = "reply" /\ HasCall(c, "tts") /\ audio_base64[c] = ""
               /\ result[c].kind # "error")
            => result[c] = SuccessResult(transcription[c], response[c], ""))
    /\ [][(HandlesNext /\ NoAudioResponse(NextMsg))
            => /\ playing' = playing
               /\ autoMode => ui' = "listening"]_vars

\* a success without audio is the next message the client handles, in auto
\* mode, while it shows Processing and plays nothing
C13_Witness ==
    /\ ws # 0
    /\ s2c[ws] # <<>>
    /\ NoAudioResponse(Head(s2c[ws]))
    /\ autoMode
    /\ ui = "processing"
    /\ playing = 0

\* process_audio of connection c has returned a failure that is sent now
SendsFailure(c) ==
    /\ srv_pc[c] = "reply"
    /\ result[c].kind = "error"
    /\ srv_pc'[c] # "reply"

\* nothing of an utterance is left between the recorder and the handlers
Quiescent ==
    /\ ws # 0
    /\ recEvents = <<>> /\ blobs = <<>>
    /\ c2s[ws] = <<>> /\ s2c[ws] = <<>>
    /\ srv_pc[ws] = "recv"

\* C14: a failed utterance does not end the session.  The server sends the
\* error and the end of processing and waits for the next message of the
\* same connection; the client that handles the error shows Listening in auto
\* mode and Idle otherwise, keeps its mode and its monitor, and once nothing
\* is in flight its processing flag is clear, so a recording can start.
C14_FailureKeepsSession ==
    /\ [][\A c \in Conns : SendsFailure(c)
            => /\ srv_pc'[c] = "recv"
               /\ Len(s2c'[c]) = Len(s2c[c]) + 2
               /\ s2c'[c][Len(s2c[c]) + 1].type = "error"
               /\ s2c'[c][Len(s2c[c]) + 2] = StateUpdate(FALSE)
               /\ c2s'[c] = c2s[c]]_vars
    /\ [][(HandlesNext /\ NextMsg.type = "error")
            => /\ ui' = IF autoMode THEN "listening" ELSE "idle"
               /\ UNCHANGED <<autoMode, monitors, microphone, ws>>]_vars
    /\ [](Quiescent => ~isProcessing)

\* after a failure the server is already working on the next audio_data of
\* the connection while the client is about to handle the error
C14_Witness ==
    /\ ws # 0
    /\ s2c[ws] # <<>>
    /\ Head(s2c[ws]).type = "error"
    /\ served[ws] = 1
    /\ srv_pc[ws] = "transcribe"

\* C16: a recording that is open is eventually closed, also when neither a
\* SpeechStop nor a manual stop occurs.
C16_RecordingEnds == isRecording ~> ~isRecording

\* this step switches auto mode off (stopAutoListening runs)
DisablesAutoMode == autoMode /\ ~autoMode'

\* the stop event of recorder r is waiting to be dispatched: its handler is
\* processRecording (:935-937), which sends the audio (:976-981)
StopQueued(q, r) == \E i \in 1..Len(q) : q[i] = [kind |-> "stop", rec |-> r]

\* C17: disabling auto mode while an utterance is being recorded discards
\* it: the recording is not handed to processRecording, so it is never
\* sent to the server.
C17_DisableDiscardsRecording ==
    [][(DisablesAutoMode /\ isRecording) => ~StopQueued(recEvents', mediaRecorder)]_vars

\* the client handles the result of a pipeline call that was in flight when
\* auto mode was switched off
HandlesCancelledResult ==
    /\ HandlesNext
    /\ NextMsg.type \in {"response", "error"}
    /\ Handled + 1 <= cancelledUpTo

\* C18: the result of a pipeline call that was in flight when auto mode was
\* disabled is discarded when it arrives: it is not played.
C18_CancelledResultDiscarded ==
    [][HandlesCancelledResult => playing' = playing]_vars

(***************************************************************************)
(* Specification of the browser client in manual mode: auto mode stays     *)
(* off, the user clicks the microphone button, and up to MaxGrants         *)
(* requests for the microphone may be waiting for their answer.            *)
(***************************************************************************)
ClickMicManual == ClickMicWithin(MaxGrants)

NextManual ==
    \/ ClickMicManual
    \/ ManualGrantResolve
    \/ ManualGrantDeny
    \/ RecorderEvent
    \/ BlobReady
    \/ WsMessage
    \/ PlaybackEnded
    \/ PipelineStep(1)

SpecManual == InitClient /\ [][NextManual]_vars

\* as FairClient, without the monitor and the timer
FairManual ==
    /\ WF_vars(RecorderEvent)
    /\ WF_vars(BlobReady)
    /\ WF_vars(WsMessage)
    /\ WF_vars(PlaybackEnded)
    /\ WF_vars(SrvReceive(1))
    /\ WF_vars(SrvTranscribeLocal(1))
    /\ WF_vars(SrvRespond(1))
    /\ WF_vars(SrvTtsStart(1))
    /\ WF_vars(SrvTtsEnd(1))
    /\ WF_vars(SrvFinish(1))
    /\ WF_vars(SrvReply(1))

SpecManualFair == SpecManual /\ FairManual

\* the recorders that may have been created
Recorders == 1..(MaxRec + 1)

\* how many stop events of recorder r wait to be dispatched; each one runs
\* processRecording once (:935-937)
StopsQueued(r) ==
    Cardinality({i \in 1..Len(recEvents) : recEvents[i] = [kind |-> "stop", rec |-> r]})

\* no recorder has two stop events, and a recorder that records has none
SealedAtMostOnce ==
    \A r \in Recorders :
        /\ StopsQueued(r) <= 1
        /\ r \in activeRecs => StopsQueued(r) = 0

\* a stop event is queued only by the step that stops the recorder, and a
\* stopped recorder is not started again
SealOnlyOnStop ==
    \A r \in Recorders :
        /\ StopsQueued(r)' > StopsQueued(r) => (r \in activeRecs /\ r \notin activeRecs')
        /\ (r <= nRec /\ r \notin activeRecs) => r \notin activeRecs'

\* stopRecording (:957-969) reaches every recorder that records
EveryRecorderStoppable ==
    \A r \in activeRecs : r = mediaRecorder /\ isRecording

\* C26: every recording that is started is handed to processRecording exactly
\* once: a recorder that records can be stopped, a stop queues one stop event,
\* that event is dispatched, and a stop on a stopped recording does nothing.
C26_SealedExactlyOnce ==
    /\ []SealedAtMostOnce
    /\ [][SealOnlyOnStop]_vars
    /\ []EveryRecorderStoppable
    /\ \A r \in Recorders : (StopsQueued(r) = 1) ~> (StopsQueued(r) = 0)

\* this step dispatches the stop event of recorder r: processRecording builds
\* the payload of that recording (:935-937, :972)
SealsRecording(r) ==
    /\ recEvents # <<>>
    /\ Head(recEvents) = [kind |-> "stop", rec |-> r]
    /\ recEvents' = Tail(recEvents)

\* the payload processRecording has built last
LastBlob == blobs[Len(blobs)]

\* C27: the payload built for a recording holds the chunks of that recording
\* only, also when the next recording starts before the recorder's last
\* data and stop events are dispatched.
C27_UtterancesNeverMix ==
    [][\A r \in Recorders :
          SealsRecording(r) => \A k \in 1..Len(LastBlob') : LastBlob'[k].rec = r]_vars

\* this step is startRecording creating and starting a recorder (:922-939)
StartsRecording == nRec' = nRec + 1

\* C28: every transition into Recording opens a new empty utterance:
\* immediately after startRecording has set isRecording to true the chunk
\* buffer is empty, whatever it held before.
C28_NewUtteranceIsEmpty ==
    [][StartsRecording => (isRecording' /\ audioChunks' = <<>>)]_vars

\* the second recording has just started with an empty buffer, after the
\* chunk of the first one had been pushed into the buffer and sealed
C28_Witness ==
    /\ nRec = 2
    /\ isRecording
    /\ audioChunks = <<>>
    /\ \E i \in 1..Len(blobs) : blobs[i] = <<[rec |-> 1]>>

\* a click on the mic button that calls startRecording (:752-753)
ClickStartsRecording == ClickMicManual /\ pendingManual' = pendingManual + 1

\* the server is in process_audio for an utterance of this client, or about
\* to send its result
PipelineCallInFlight == ws # 0 /\ srv_pc[ws] \in PipelinePcs \cup {"reply"}

\* C29: with auto mode off, a click on the mic button starts a recording only
\* when the client is neither recording nor processing, stops the recording
\* when one is active, and does nothing while a pipeline call is in flight
\* for the previous utterance.
C29_ManualSingleFlight ==
    [][/\ ClickStartsRecording => (~isRecording /\ ~isProcessing)
       /\ (ClickMicManual /\ isRecording) => ~isRecording'
       /\ PipelineCallInFlight => ~ClickStartsRecording]_vars

(***************************************************************************)
(* The local loop with a main thread that keeps running                    *)
(***************************************************************************)
\* a step of speak_text (app.py:147-181)
SpeakNext ==
    \/ SpeakAcquire1
    \/ SpeakSetGate
    \/ SpeakRelease1
    \/ SpeakSynthesize
    \/ SpeakConvert
    \/ SpeakPlay
    \/ SpeakWait
    \/ SpeakSleep
    \/ SpeakAcquire2
    \/ SpeakClearGate
    \/ SpeakRelease2

\* The main thread is not stopped inside speak_text: the synthesis stream
\* ends or raises, the mixer stops being busy when the audio is over, the
\* sleep returns, and nobody else holds audio_lock.  Nothing makes the user
\* speak, and the capture callback may be called or not.
FairLocal == WF_vars(SpeakNext)

SpecLocalFair == SpecLocal /\ FairLocal

\* C31: every call of speak_text sets listening_active back to True, also
\* when synthesis, decoding or playback raises: capture is never left
\* suppressed forever.
C31_GateAlwaysReleased ==
    /\ (main_pc = "sp_acq1") ~> (main_pc = "sp_rel2" /\ listening_active)
    /\ (~listening_active) ~> listening_active

\* speak_text has cleared the gate for an answer and is about to return to
\* the loop, which can hear the next utterance
C31_Witness ==
    /\ main_pc = "sp_rel2"
    /\ ret_pc = "get"
    /\ listening_active
    /\ speaker = "silent"

(***************************************************************************)
(* Specification of the browser client in manual mode whose websocket may  *)
(* close and is opened again (:717-743)                                    *)
(***************************************************************************)
\* :733-737  the socket closes (network failure, server restart): what is in
\* the connection is lost, onclose arms the reconnect timer; no field of the
\* page other than the status text is touched
WsClose ==
    /\ ws = 1
    /\ ws' = 0
    /\ c2s' = [c2s EXCEPT ![ws] = <<>>]
    /\ s2c' = [s2c EXCEPT ![ws] = <<>>]
    /\ UNCHANGED <<autoMode, cancelledUpTo, isRecording, isProcessing, silenceTimeout,
                   silenceDelay, microphone, mediaRecorder, audioChunks, ui, playing,
                   pendingAuto, pendingManual, monitors, activeRecs, recEvents,
                   blobs, nRec, level>>
    /\ UNCHANGED <<srvPriv, sent>>
    /\ UNCHANGED <<localVars, vadVars>>

\* :717-726, :736, :265-269  the timer of onclose runs initializeWebSocket, the
\* server accepts the new connection and onopen fires
WsReconnect ==
    /\ ws = 0
    /\ srv_pc[2] = "none"
    /\ ws' = 2
    /\ srv_pc' = [srv_pc EXCEPT ![2] = "recv"]
    /\ current_websocket' = 2
    /\ UNCHANGED <<autoMode, cancelledUpTo, isRecording, isProcessing, silenceTimeout,
                   silenceDelay, microphone, mediaRecorder, audioChunks, ui, playing,
                   pendingAuto, pendingManual, monitors, activeRecs, recEvents,
                   blobs, nRec, level>>
    /\ UNCHANGED <<openai_api_key, is_processing, cur, transcription, response,
                   audio_base64, result, calls, c2s, s2c, sent, served>>
    /\ UNCHANGED timeVars
    /\ UNCHANGED <<localVars, vadVars>>

\* the handler of the connection the page has open
ServerLive(c) == ws = c /\ PipelineStep(c)

\* the handler of a connection that is gone: it goes on with the call it is
\* in, its sends raise (:288-321), and receive_json raises
\* WebSocketDisconnect (:317-319)
ServerGone(c) ==
    /\ ws # c
    /\ \/ SrvTranscribe(c)
       \/ SrvRespond(c)
       \/ SrvTtsStart(c)
       \/ SrvTtsEnd(c)
       \/ SrvFinish(c)
       \/ SrvSendFails(c)
       \/ SrvDisconnect(c)

NextReconnect ==
    \/ ClickMicManual
    \/ ManualGrantResolve
    \/ ManualGrantDeny
    \/ RecorderEvent
    \/ BlobReady
    \/ WsMessage
    \/ PlaybackEnded
    \/ WsClose
    \/ WsReconnect
    \/ \E c \in Conns : ServerLive(c)
    \/ \E c \in Conns : ServerGone(c)

SpecReconnect == InitClient /\ [][NextReconnect]_vars

\* What the browser and the server guarantee: recorder events, promise
\* continuations, socket messages and the reconnect timer are delivered, a
\* started playback ends, and every stage of the pipeline returns, the
\* transcription call included.  Nothing makes the user click or the socket
\* close.
FairReconnect ==
    /\ WF_vars(RecorderEvent)
    /\ WF_vars(BlobReady)
    /\ WF_vars(WsMessage)
    /\ WF_vars(PlaybackEnded)
    /\ WF_vars(WsReconnect)
    /\ \A c \in Conns : WF_vars(ServerLive(c))
    /\ \A c \in Conns : WF_vars(ServerGone(c))

SpecReconnectFair == SpecReconnect /\ FairReconnect

\* C32: whenever isProcessing is true it eventually becomes false again, also
\* when the websocket closes and is opened again before the server's
\* state_update(false) is delivered.
C32_ProcessingFlagClears == isProcessing ~> ~isProcessing

\* C33: at most one recorder is started at any time, and a started recorder
\* is the one this.mediaRecorder refers to, so that stopRecording can stop it.
C33_OneActiveRecorder ==
    /\ Cardinality(activeRecs) <= 1
    /\ \A r \in activeRecs : mediaRecorder = r

(***************************************************************************)
(* Specification of the controls of the browser client: both buttons, the  *)
(* microphone grants, the monitor, the silence timer and the recorder,     *)
(* with up to MaxGrants requests for the microphone and monitor loops at a *)
(* time.  It follows the page up to the point where processRecording has   *)
(* built its payload; no upload completes, so isProcessing stays false.    *)
(***************************************************************************)
ClickAutoButtonWide == ClickAutoButtonWithin(MaxGrants)

NextControls ==
    \/ ClickAutoButtonWide
    \/ ClickMicManual
    \/ AutoGrantResolve
    \/ AutoGrantDeny
    \/ ManualGrantResolve
    \/ ManualGrantDeny
    \/ CheckAudio
    \/ TimerFire
    \/ Tick
    \/ \E l \in ClientLouds : Sound(l)
    \/ RecorderEvent

SpecControls == InitClient /\ [][NextControls]_vars

\* a silence timer is armed and has not run or been cleared (:855-861)
TimerPending == silenceTimeout # -1

\* this step ends the recording
EndsRecording == isRecording /\ ~isRecording'

\* C34: a pending silence timer implies that a recording is open, and a step
\* that ends the recording, by the timer or by disabling auto mode, leaves
\* no timer pending: a timer never closes a later recording.
C34_TimerNeverOutlivesRecording ==
    /\ [](TimerPending => isRecording)
    /\ [][EndsRecording => ~TimerPending']_vars

\* this step is the loop handling a block: AcceptWaveform and what follows
\* up to the lookup (app.py:231-235)
HandlesBlock == main_pc = "accept" /\ main_pc' # "accept"

\* this step calls speak_text from the loop (app.py:239)
LoopCallsSpeak == stream_open /\ main_pc # "sp_acq1" /\ main_pc' = "sp_acq1"

\* C35: a recognition result whose text is empty after trimming triggers no
\* lookup and no speech and leaves listening_active as it is; a lookup is
\* made only for a non-empty final text, and it is followed by one call of
\* speak_text, after which the loop waits for audio again.
C35_EmptyResultIsSkipped ==
    [][/\ (HandlesBlock /\ Strip(text') = "") =>
             (main_pc' = "get" /\ listening_active' = listening_active /\ reply' = reply)
       /\ (HandlesBlock /\ main_pc' = "query") => Strip(text') # ""
       /\ main_pc' = "query" => HandlesBlock \/ main_pc = "query"
       /\ LoopCallsSpeak => (main_pc = "query" /\ Strip(text) # "")
       /\ (main_pc = "query" /\ main_pc' # "query") => main_pc' \in {"sp_acq1", "stopped"}
       /\ (main_pc = "sp_rel2" /\ main_pc' # "sp_rel2" /\ ret_pc = "get") => main_pc' = "get"]_vars

\* after an answer the loop has taken a final result with an empty text and
\* waits for audio again, the gate open
C35_Witness ==
    /\ main_pc = "get"
    /\ text = ""
    /\ reply # ""
    /\ listening_active
    /\ stream_open

\* this step starts a recording from a frame of the monitor (:849-851)
VadStartsRecording ==
    /\ nRec' = nRec + 1
    /\ pendingManual' = pendingManual

\* C36: when the microphone is refused to startAutoListening, autoMode is
\* false afterwards and no monitor loop is running; and the VAD starts a
\* recording only while auto mode is on with a microphone connected.
C36_FailedEnableRolledBack ==
    /\ [][AutoGrantDeny => (~autoMode' /\ monitors' = 0)]_vars
    /\ [][VadStartsRecording => (autoMode /\ microphone')]_vars

====
